---- MODULE Spec2Model ----
(***************************************************************************)
(* A model of the v3 API of qlued (src/src/qlued/api_v3.py): the views     *)
(* get_config, get_backend_status, list_backends, post_job, get_job_status *)
(* and get_job_result, the bearer authentication in front of the last      *)
(* three, and the storage provider they talk to; and of the records the    *)
(* API reads (src/src/qlued/models.py): the provider records and the       *)
(* tokens, with their validation and their unique keys.                    *)
(*                                                                         *)
(* A string the code splits or concatenates (a backend name, a provider    *)
(* name, a device name) is a sequence of one-character strings.  A message *)
(* (detail, error_message) is the concatenation of its fragments, each a   *)
(* literal of the source or an interpolated value.                         *)
(***************************************************************************)
EXTENDS Integers, Sequences, FiniteSets, TLC

VARIABLES
    Token,              \* Token.objects: the credential records
    StorageProviderDb,  \* StorageProviderDb.objects: the provider records
    backends,           \* per provider name, the configs of the devices it holds
    jobs,               \* the job and status records the provider stores
    req,                \* the request being served, or the last one served
    resp,               \* its response (code 0: not yet answered)
    calls,              \* the provider operations issued for req, in order
    pc,                 \* "idle", or "get_result": get_job_result is between
                        \* its status read and its result read
    status_msg_dict,    \* get_job_result's local: the status record it fetched
    submitted,          \* history: the last post_job that succeeded, as long
                        \* as the provider has not worked on a job since
    entry,              \* the provider record a caller of the models holds in
                        \* memory (a model instance), or NoEntry
    last                \* the last operation on the record stores: its name,
                        \* its argument and the exception it raised ("": none)

vars == <<Token, StorageProviderDb, backends, jobs, req, resp, calls, pc,
          status_msg_dict, submitted, entry, last>>

----------------------------------------------------------------------------
(* Bounds *)

MaxJobs == 2

----------------------------------------------------------------------------
(* Strings *)

underscore == "_"

simulator == <<"s", "i", "m", "u", "l", "a", "t", "o", "r">>
hardware == <<"h", "a", "r", "d", "w", "a", "r", "e">>

RECURSIVE split(_, _)
\* str.split(sep): the parts of s between the occurrences of sep
split(s, sep) ==
    IF \A i \in 1..Len(s) : s[i] # sep
    THEN <<s>>
    ELSE LET i == CHOOSE k \in 1..Len(s) :
                      s[k] = sep /\ \A j \in 1..(k - 1) : s[j] # sep
         IN <<SubSeq(s, 1, i - 1)>> \o split(SubSeq(s, i + 1, Len(s)), sep)

RECURSIVE join(_, _)
\* sep.join(parts), as an f-string "{a}_{b}_{c}" builds it
join(parts, sep) ==
    IF Len(parts) = 0 THEN <<>>
    ELSE IF Len(parts) = 1 THEN parts[1]
    ELSE parts[1] \o <<sep>> \o join(Tail(parts), sep)

\* sub in s: the string s has sub as a substring
contains(s, sub) ==
    \E i \in 1..(Len(s) - Len(sub) + 1) : SubSeq(s, i, i + Len(sub) - 1) = sub

dummy == <<"d", "u", "m", "m", "y">>

\* a fragment of a message: a literal of the source, or an interpolated value
Lit(s) == [lit |-> s, val |-> <<>>]
Val(v) == [lit |-> "", val |-> v]

\* the message has the literal s as one of its fragments
Mentions(msg, s) == \E i \in 1..Len(msg) : msg[i] = Lit(s)

NoneStr == <<Lit("None")>>
UnknownBackend == <<Lit("Unknown back-end"), Lit("!")>>
InvalidCredentials == <<Lit("Invalid credentials!")>>
ErrorSavingJson == <<Lit("Error saving json data to database!")>>
BadJsonEncoding == <<Lit("The encoding of your json seems not work out!")>>

\* the status record {job_id, status, detail, error_message}
StatusMsgDict(job_id, status, detail, error_message) ==
    [job_id |-> job_id, status |-> status, detail |-> detail,
     error_message |-> error_message]

\* sqooler's get_init_status(), as get_job_status uses it
get_init_status ==
    StatusMsgDict("None", "INITIALIZING", <<Lit("Got your json.")>>, NoneStr)

----------------------------------------------------------------------------
(* The fixture: names the requests are drawn from *)

P1 == <<"p", "1">>      \* a provider record that exists
P2 == <<"p", "2">>      \* a second provider record
GHOST == <<"g">>        \* a provider name with no record
DEV == <<"d">>          \* a device of P1
NODEV == <<"x">>        \* a device name P1 does not list

DEV2 == <<"e">>         \* a second device
DUMMY1 == dummy \o <<"1">>            \* a test device, named as the tests do
XDUMMY == <<"x">> \o dummy \o <<"1">>  \* a device with dummy inside its name

BackendNames ==
    { join(<<P1, DEV, simulator>>, underscore),
      join(<<P1, DEV, hardware>>, underscore),
      join(<<P1, NODEV, simulator>>, underscore),
      join(<<GHOST, DEV, simulator>>, underscore),
      DEV,
      join(<<P1, DEV>>, underscore),
      join(<<GHOST, DEV>>, underscore),
      join(<<P1, DEV, simulator, NODEV>>, underscore) }

Keys == {"k1", "k2", "bad"}
Payloads == {"dict", "not_a_dict"}
Faults == {"none", "upload_job", "upload_status"}
JobIds == {ToString(i) : i \in 1..MaxJobs}

NoStatus == StatusMsgDict("None", "None", NoneStr, NoneStr)
NoResp == [code |-> 0, kind |-> "none", body |-> <<>>]
NoEntry == [id |-> 0, name |-> <<>>, storage_type |-> "", is_active |-> FALSE,
            login |-> {}]
NoOp == [op |-> "none", arg |-> <<>>, exc |-> ""]
NoSubmission == [backend_name |-> <<>>, token |-> "", job_id |-> ""]
NoReq == [endpoint |-> "none", backend_name |-> <<>>, token |-> "",
          job_id |-> "", payload |-> "", fault |-> "none"]

Request(endpoint, backend_name, token, job_id, payload, fault) ==
    [endpoint |-> endpoint, backend_name |-> backend_name, token |-> token,
     job_id |-> job_id, payload |-> payload, fault |-> fault]

Response(code, kind, body) == [code |-> code, kind |-> kind, body |-> body]

\* an exception no handler catches: the framework answers 500
Unhandled(exc) == Response(500, "unhandled", exc)

----------------------------------------------------------------------------
(* qlued.storage_providers: the name resolver and the provider registry *)

\* get_short_backend_name: the device part of a backend name of one or three
\* parts, the empty string for any other number of parts
get_short_backend_name(backend_name) ==
    LET parts == split(backend_name, underscore)
    IN IF Len(parts) = 1 THEN parts[1]
       ELSE IF Len(parts) = 3 THEN parts[2]
       ELSE <<>>

\* get_storage_provider: the provider whose record is named by the first part
\* of the backend name; StorageProviderDb.DoesNotExist when there is none
get_storage_provider(backend_name) ==
    LET storage_provider_name == split(backend_name, underscore)[1]
    IN IF \E e \in StorageProviderDb : e.name = storage_provider_name
       THEN [exc |-> "", name |-> storage_provider_name]
       ELSE [exc |-> "StorageProviderDb.DoesNotExist", name |-> <<>>]

\* get_storage_provider_from_entry: the client of the provider the record
\* describes, known here by the record's name
get_storage_provider_from_entry(storage_provider_entry) ==
    storage_provider_entry.name

----------------------------------------------------------------------------
(* The storage provider (sqooler), as the views use it *)

Call(op, provider, display_name, username, job_id, ret) ==
    [op |-> op, provider |-> provider, display_name |-> display_name,
     username |-> username, job_id |-> job_id, ret |-> ret]

\* the operations that write or read a job, a status or a result
JobOps == {"upload_job", "upload_status", "get_status", "get_result"}

get_backends(storage_provider) == DOMAIN backends[storage_provider]

\* the indices of the records stored under (display_name, username, job_id)
Stored(storage_provider, display_name, username, job_id) ==
    { i \in 1..Len(jobs) :
        /\ jobs[i].provider = storage_provider
        /\ jobs[i].display_name = display_name
        /\ jobs[i].username = username
        /\ jobs[i].job_id = job_id }

\* get_status: the status record stored for the job; a read that finds none
\* comes back as a status record whose status is ERROR
get_status(storage_provider, display_name, username, job_id) ==
    LET found == { i \in Stored(storage_provider, display_name, username, job_id) :
                     jobs[i].status # "NONE" }
    IN IF found = {}
       THEN StatusMsgDict(job_id, "ERROR", <<Lit("Could not get status.")>>,
                          <<Lit("Could not get status.")>>)
       ELSE StatusMsgDict(job_id, jobs[CHOOSE i \in found : TRUE].status,
                          <<Lit("Got your json.")>>, NoneStr)

\* get_result: the result record of the job
get_result(storage_provider, display_name, username, job_id) ==
    [display_name |-> display_name, job_id |-> job_id, status |-> "finished"]

\* upload_job: a new job record, under a job_id the provider mints
upload_job(storage_provider, display_name, username) ==
    LET job_id == ToString(Len(jobs) + 1)
    IN [job_id |-> job_id,
        jobs |-> Append(jobs, [provider |-> storage_provider,
                               display_name |-> display_name,
                               username |-> username,
                               job_id |-> job_id,
                               status |-> "NONE"])]

\* upload_status: the initial status record of the job, which it returns
upload_status(stored, storage_provider, display_name, username, job_id) ==
    [status |-> StatusMsgDict(job_id, "INITIALIZING", <<Lit("Got your json.")>>,
                              NoneStr),
     jobs |-> [i \in 1..Len(stored) |->
                 IF /\ stored[i].provider = storage_provider
                    /\ stored[i].display_name = display_name
                    /\ stored[i].username = username
                    /\ stored[i].job_id = job_id
                 THEN [stored[i] EXCEPT !.status = "INITIALIZING"]
                 ELSE stored[i]]]

\* get_backend_dict: the config of a device; FileNotFoundError for a device
\* the provider does not hold
get_backend_dict(storage_provider, display_name) ==
    IF display_name \in DOMAIN backends[storage_provider]
    THEN [exc |-> "",
          config |-> [display_name |-> display_name,
                      simulator |-> backends[storage_provider][display_name].simulator,
                      url |-> <<>>]]
    ELSE [exc |-> "FileNotFoundError", config |-> <<>>]

\* get_backend_status: the status of a device; FileNotFoundError for a device
\* the provider does not hold
get_backend_status_of(storage_provider, display_name) ==
    IF display_name \in DOMAIN backends[storage_provider]
    THEN [exc |-> "",
          status |-> [backend_name |-> display_name, operational |-> TRUE]]
    ELSE [exc |-> "FileNotFoundError", status |-> <<>>]


----------------------------------------------------------------------------
(* api_v3: the authentication and the views.  A view is an operator from  *)
(* its arguments and the stores to what it does: its response, the        *)
(* provider operations it issues and the records it leaves stored.        *)

BASE_URL == <<"u">>

\* authentication of the tokens that are active only
authenticate_active(tokens, token) ==
    \E t \in tokens : t.key = token /\ t.is_active

\* Token.objects.get(key=token) finds a record among the records tokens
authenticate_with(tokens, token) == \E t \in tokens : t.key = token

\* AuthBearer.authenticate: Token.objects.get(key=token) finds a record
authenticate(token) == authenticate_with(Token, token)

\* on_invalid_token with the detail left at its default
on_invalid_token_no_detail ==
    Response(401, "status",
             StatusMsgDict("None", "ERROR", NoneStr, InvalidCredentials))

\* on_invalid_token: the answer to InvalidToken
on_invalid_token ==
    Response(401, "status",
             StatusMsgDict("None", "ERROR", InvalidCredentials, InvalidCredentials))

\* token.user.username of Token.objects.get(key=api_key)
username_of(api_key) == (CHOOSE t \in Token : t.key = api_key).user

\* DictSchema: the body's payload is a dict
DictSchema(payload) == payload = "dict"

Done(response, issued, stored) ==
    [resp |-> response, calls |-> issued, jobs |-> stored]

\* get_config's try catching what get_backend_status's catches
get_config_except_file(exc) == exc = "FileNotFoundError"

\* the exception get_config's try catches
get_config_except(exc) == exc = "StorageProviderDb.DoesNotExist"

\* the exception get_backend_status's try catches
get_backend_status_except(exc) == exc = "FileNotFoundError"

\* the membership test left out
known_backend_any(short_backend, backend_names) == TRUE

\* short_backend in backend_names: the device is one the provider lists
known_backend(short_backend, backend_names) == short_backend \in backend_names

\* every device named a simulator
variant_simulator(is_simulator) == simulator

\* the last part of get_config's full_backend_name, from the simulator flag
\* of the device's config
variant(is_simulator) == IF is_simulator THEN simulator ELSE hardware

\* (the source writes the `_` of both details between backticks)
get_config(backend_name) ==
    LET short_backend == get_short_backend_name(backend_name)
        detail == <<Lit("Unknown back-end"), Lit(" "), Val(backend_name),
                    Lit("! The string should have 1 or three parts separated by _!")>>
        not_found == Response(404, "status",
                         StatusMsgDict("None", "ERROR", detail, UnknownBackend))
        found == get_storage_provider(backend_name)
    IN IF short_backend = <<>> THEN Done(not_found, <<>>, jobs)
       ELSE IF found.exc # "" /\ get_config_except(found.exc)
       THEN Done(not_found, <<>>, jobs)
       ELSE IF found.exc # "" THEN Done(Unhandled(found.exc), <<>>, jobs)
       ELSE LET storage_provider == found.name
                got == get_backend_dict(storage_provider, short_backend)
                issued == <<Call("get_backend_dict", storage_provider,
                                 short_backend, "", "", "")>>
                full_backend_name ==
                    join(<<storage_provider, short_backend,
                           variant(got.config.simulator)>>, underscore)
            IN IF got.exc # "" THEN Done(Unhandled(got.exc), issued, jobs)
               ELSE Done(Response(200, "config",
                            [got.config EXCEPT !.url =
                                <<Val(BASE_URL), Lit("/api/v2/"),
                                  Val(full_backend_name), Lit("/")>>]),
                         issued, jobs)

get_backend_status(backend_name) ==
    LET short_backend == get_short_backend_name(backend_name)
        detail == <<Lit("Unknown back-end"),
                    Lit("! The string should have 1 or three parts separated by _!")>>
        not_found == Response(404, "status",
                         StatusMsgDict("None", "ERROR", detail, UnknownBackend))
        found == get_storage_provider(backend_name)
    IN IF short_backend = <<>> THEN Done(not_found, <<>>, jobs)
       ELSE IF found.exc # "" /\ get_backend_status_except(found.exc)
       THEN Done(not_found, <<>>, jobs)
       ELSE IF found.exc # "" THEN Done(Unhandled(found.exc), <<>>, jobs)
       ELSE LET storage_provider == found.name
                got == get_backend_status_of(storage_provider, short_backend)
                issued == <<Call("get_backend_status", storage_provider,
                                 short_backend, "", "", "")>>
            IN IF got.exc # "" THEN Done(Unhandled(got.exc), issued, jobs)
               ELSE Done(Response(200, "backend_status", got.status), issued, jobs)

\* post_job's except clause leaving the detail as it was
saving_failed_detail_kept(job_response_dict) ==
    Response(406, "status",
             [job_response_dict EXCEPT !.status = "ERROR",
                                       !.error_message = ErrorSavingJson])

\* post_job's except (AuthError, ApiError) clause: its answer, from the
\* status record the view holds when the provider raises
saving_failed(job_response_dict) ==
    Response(406, "status",
             [job_response_dict EXCEPT !.status = "ERROR",
                                       !.detail = ErrorSavingJson,
                                       !.error_message = ErrorSavingJson])

\* post_job handing back the job the user already has on the device, when
\* there is one, in place of a new upload
submit_job_once(storage_provider, short_backend, username) ==
    LET held == { i \in 1..Len(jobs) :
                    /\ jobs[i].provider = storage_provider
                    /\ jobs[i].display_name = short_backend
                    /\ jobs[i].username = username }
    IN IF held = {} THEN upload_job(storage_provider, short_backend, username)
       ELSE [job_id |-> jobs[CHOOSE i \in held : TRUE].job_id, jobs |-> jobs]

\* post_job's upload of the job: every call is a new upload_job
submit_job(storage_provider, short_backend, username) ==
    upload_job(storage_provider, short_backend, username)

\* upload_status addressed by the job_id of the default status record
upload_status_args_default(short_backend, username, job_id) ==
    [display_name |-> short_backend, username |-> username, job_id |-> "None"]

\* the keyword arguments post_job calls upload_status with
upload_status_args(short_backend, username, job_id) ==
    [display_name |-> short_backend, username |-> username, job_id |-> job_id]

\* an except clause that takes back what the provider stored in the try
except_leaves_rolled_back(before, stored) == before

\* what the provider holds when post_job's except clause has run, of what
\* it held before the try and what the try stored: the clause only fills in
\* the answer
except_leaves(before, stored) == stored

\* fault: the step of the provider that raises AuthError or ApiError, if any
post_job(payload, backend_name, api_key, fault) ==
    LET username == username_of(api_key)
        short_backend == get_short_backend_name(backend_name)
        found == get_storage_provider(backend_name)
    IN IF found.exc # "" THEN Done(Unhandled(found.exc), <<>>, jobs)
       ELSE
       LET storage_provider == found.name
           listed == Call("get_backends", storage_provider, <<>>, "", "", "")
           uploaded == submit_job(storage_provider, short_backend, username)
           job_id == uploaded.job_id
           job_call == Call("upload_job", storage_provider, short_backend,
                            username, IF fault = "upload_job" THEN "" ELSE job_id, "")
           args == upload_status_args(short_backend, username, job_id)
           written == upload_status(uploaded.jobs, storage_provider,
                                    args.display_name, args.username, args.job_id)
           status_call == Call("upload_status", storage_provider,
                               args.display_name, args.username, args.job_id, "")
           job_response_dict == NoStatus
       IN IF ~known_backend(short_backend, get_backends(storage_provider))
          THEN Done(Response(404, "status",
                        StatusMsgDict("None", "ERROR", UnknownBackend, UnknownBackend)),
                    <<listed>>, jobs)
          ELSE IF fault = "upload_job"
          THEN Done(saving_failed(job_response_dict), <<listed, job_call>>, jobs)
          ELSE IF fault = "upload_status"
          THEN Done(saving_failed(job_response_dict),
                    <<listed, job_call, status_call>>,
                    except_leaves(jobs, uploaded.jobs))
          ELSE Done(Response(200, "status", written.status),
                    <<listed, job_call, status_call>>, written.jobs)

\* status_answer with the draft of the status record in place of the one
\* fetched
status_answer_init(job_response_dict) ==
    Response(200, "status", get_init_status)

\* status_answer without the test for ERROR
status_answer_200(job_response_dict) ==
    Response(200, "status", job_response_dict)

\* get_job_status's answer with the status record it fetched
status_answer(job_response_dict) ==
    IF job_response_dict.status = "ERROR"
    THEN Response(406, "status", job_response_dict)
    ELSE Response(200, "status", job_response_dict)

get_job_status(backend_name, job_id, token) ==
    LET username == username_of(token)
        found == get_storage_provider(backend_name)
        short_backend == get_short_backend_name(backend_name)
    IN IF found.exc # "" THEN Done(Unhandled(found.exc), <<>>, jobs)
       ELSE
       LET storage_provider == found.name
           listed == Call("get_backends", storage_provider, <<>>, "", "", "")
           job_response_dict == get_status(storage_provider, short_backend,
                                           username, job_id)
           issued == <<listed, Call("get_status", storage_provider, short_backend,
                                    username, job_id, job_response_dict.status)>>
       IN IF ~known_backend(short_backend, get_backends(storage_provider))
          THEN Done(Response(404, "status",
                        [get_init_status EXCEPT !.status = "ERROR",
                                                !.detail = UnknownBackend,
                                                !.error_message = UnknownBackend]),
                    <<listed>>, jobs)
          ELSE Done(status_answer(job_response_dict), issued, jobs)

\* after_status with the test for DONE turned round
after_status_done_waits(fetched) ==
    IF fetched.status = "ERROR" THEN Response(406, "status", fetched)
    ELSE IF fetched.status = "DONE" THEN Response(200, "status", fetched)
    ELSE NoResp

\* after_status with the test for DONE left out
after_status_any(fetched) ==
    IF fetched.status = "ERROR" THEN Response(406, "status", fetched)
    ELSE NoResp

\* what get_job_result does with the status record it fetched: answer with it
\* (406, 200) or go on to fetch the result ("get_result")
after_status(fetched) ==
    IF fetched.status = "ERROR" THEN Response(406, "status", fetched)
    ELSE IF fetched.status # "DONE" THEN Response(200, "status", fetched)
    ELSE NoResp

\* get_job_result up to and including its status read
get_job_result(backend_name, job_id, token) ==
    LET username == username_of(token)
        short_backend == get_short_backend_name(backend_name)
        found == get_storage_provider(backend_name)
    IN IF found.exc # "" THEN Done(Unhandled(found.exc), <<>>, jobs)
       ELSE
       LET storage_provider == found.name
           listed == Call("get_backends", storage_provider, <<>>, "", "", "")
           fetched == get_status(storage_provider, short_backend, username, job_id)
           issued == <<listed, Call("get_status", storage_provider, short_backend,
                                    username, job_id, fetched.status)>>
       IN IF ~known_backend(short_backend, get_backends(storage_provider))
          THEN Done(Response(404, "status",
                        StatusMsgDict("None", "ERROR", UnknownBackend, UnknownBackend)),
                    <<listed>>, jobs)
          ELSE [resp |-> after_status(fetched), calls |-> issued, jobs |-> jobs,
                status_msg_dict |-> fetched]

RECURSIVE SeqOf(_)
\* the elements of a set in the order a loop meets them (an order the claims
\* do not depend on)
SeqOf(S) ==
    IF S = {} THEN <<>>
    ELSE LET x == CHOOSE y \in S : TRUE IN <<x>> \o SeqOf(S \ {x})

\* list_backends without the test of is_active
is_listed_any(storage_provider_entry) == TRUE

\* list_backends takes the devices of the record: it is active
is_listed(storage_provider_entry) == storage_provider_entry.is_active

\* the for loops of list_backends: what they append to backend_list, and the
\* provider operations they issue
RECURSIVE list_devices(_, _)
list_devices(storage_provider, backend_names) ==
    IF backend_names = <<>> THEN [backend_list |-> <<>>, calls |-> <<>>]
    ELSE LET backend == Head(backend_names)
             rest == list_devices(storage_provider, Tail(backend_names))
             config_dict == get_backend_dict(storage_provider, backend).config
         IN IF ~contains(backend, dummy)
            THEN [backend_list |-> <<config_dict>> \o rest.backend_list,
                  calls |-> <<Call("get_backend_dict", storage_provider, backend,
                                   "", "", "")>> \o rest.calls]
            ELSE rest

RECURSIVE list_entries(_)
list_entries(storage_provider_entries) ==
    IF storage_provider_entries = <<>> THEN [backend_list |-> <<>>, calls |-> <<>>]
    ELSE LET storage_provider_entry == Head(storage_provider_entries)
             rest == list_entries(Tail(storage_provider_entries))
             storage_provider ==
                 get_storage_provider_from_entry(storage_provider_entry)
             backend_names == SeqOf(get_backends(storage_provider))
             inner == list_devices(storage_provider, backend_names)
         IN IF ~is_listed(storage_provider_entry) THEN rest
            ELSE [backend_list |-> inner.backend_list \o rest.backend_list,
                  calls |-> <<Call("get_backends", storage_provider, <<>>,
                                   "", "", "")>> \o inner.calls \o rest.calls]

list_backends ==
    LET listed == list_entries(SeqOf(StorageProviderDb))
    IN Done(Response(200, "backends", listed.backend_list), listed.calls, jobs)

\* get_job_result answering with the status record in place of the result
get_job_result_fetch_status ==
    Done(Response(200, "status", status_msg_dict), calls, jobs)

\* get_job_result's result read and answer, the status having been DONE
get_job_result_fetch ==
    LET storage_provider == get_storage_provider(req.backend_name).name
        short_backend == get_short_backend_name(req.backend_name)
        username == username_of(req.token)
        result_dict == get_result(storage_provider, short_backend, username,
                                  req.job_id)
    IN Done(Response(200, "result", result_dict),
            Append(calls, Call("get_result", storage_provider, short_backend,
                               username, req.job_id, "")),
            jobs)


Init ==
    /\ Token = { [key |-> "k1", user |-> "alice", is_active |-> TRUE,
                  created_at |-> 1, storage_provider |-> <<>>],
                 [key |-> "k2", user |-> "bob", is_active |-> FALSE,
                  created_at |-> 2, storage_provider |-> P2] }
    /\ StorageProviderDb =
           { [name |-> P1, storage_type |-> "local", is_active |-> TRUE],
             [name |-> P2, storage_type |-> "local", is_active |-> TRUE] }
    /\ backends = [n \in {P1, P2} |->
                      IF n = P1 THEN [d \in {DEV} |-> [simulator |-> TRUE]]
                      ELSE [d \in {DEV2} |-> [simulator |-> FALSE]]]
    /\ jobs = <<>>
    /\ req = NoReq
    /\ resp = NoResp
    /\ calls = <<>>
    /\ pc = "idle"
    /\ status_msg_dict = NoStatus
    /\ submitted = NoSubmission
    /\ entry = NoEntry
    /\ last = NoOp

----------------------------------------------------------------------------
(* The requests, and the provider's own progress on a job.  One request   *)
(* is served at a time: pc is "idle" between requests, "get_result" while *)
(* get_job_result is between its two provider reads, "done" once the view *)
(* has returned; the request's own state is dropped with its answer.      *)

\* the framework's answer to a body that DictSchema rejects
validation_error == Response(422, "validation", <<>>)

Serve(request, out) ==
    /\ req' = request
    /\ resp' = out.resp
    /\ calls' = out.calls
    /\ jobs' = out.jobs
    /\ UNCHANGED <<Token, StorageProviderDb, backends, entry, last>>

Ops(issued) == {issued[i].op : i \in 1..Len(issued)}

GetConfig ==
    /\ pc = "idle"
    /\ \E backend_name \in BackendNames :
          Serve(Request("get_config", backend_name, "", "", "", "none"),
                get_config(backend_name))
    /\ pc' = "done"
    /\ UNCHANGED <<status_msg_dict, submitted>>

GetBackendStatus ==
    /\ pc = "idle"
    /\ \E backend_name \in BackendNames :
          Serve(Request("get_backend_status", backend_name, "", "", "", "none"),
                get_backend_status(backend_name))
    /\ pc' = "done"
    /\ UNCHANGED <<status_msg_dict, submitted>>

ListBackends ==
    /\ pc = "idle"
    /\ Serve(Request("list_backends", <<>>, "", "", "", "none"), list_backends)
    /\ pc' = "done"
    /\ UNCHANGED <<status_msg_dict, submitted>>

\* authentication, then the validation of the body, then the view; the
\* provider can fail only in a step the request comes to
PostJob ==
    /\ pc = "idle"
    /\ \E backend_name \in BackendNames, token \in Keys, payload \in Payloads,
          fault \in Faults :
          LET out == IF ~authenticate(token) THEN Done(on_invalid_token, <<>>, jobs)
                     ELSE IF ~DictSchema(payload)
                     THEN Done(validation_error, <<>>, jobs)
                     ELSE post_job(payload, backend_name, token, fault)
          IN /\ Len(out.jobs) <= MaxJobs
             /\ fault # "none" => "upload_job" \in Ops(out.calls)
             /\ Serve(Request("post_job", backend_name, token, "", payload, fault),
                      out)
             /\ submitted' = IF out.resp.code = 200
                              THEN [backend_name |-> backend_name, token |-> token,
                                    job_id |-> out.resp.body.job_id]
                              ELSE submitted
    /\ pc' = "done"
    /\ UNCHANGED status_msg_dict

GetJobStatus ==
    /\ pc = "idle"
    /\ \E backend_name \in BackendNames, token \in Keys, job_id \in JobIds :
          Serve(Request("get_job_status", backend_name, token, job_id, "", "none"),
                IF ~authenticate(token) THEN Done(on_invalid_token, <<>>, jobs)
                ELSE get_job_status(backend_name, job_id, token))
    /\ pc' = "done"
    /\ UNCHANGED <<status_msg_dict, submitted>>

\* get_job_result to its status read: it answers, or goes on to the result
GetJobResult ==
    /\ pc = "idle"
    /\ \E backend_name \in BackendNames, token \in Keys, job_id \in JobIds :
          LET out == IF ~authenticate(token) THEN Done(on_invalid_token, <<>>, jobs)
                     ELSE get_job_result(backend_name, job_id, token)
              reads == "status_msg_dict" \in DOMAIN out
          IN /\ Serve(Request("get_job_result", backend_name, token, job_id, "",
                              "none"), out)
             /\ pc' = IF out.resp = NoResp THEN "get_result" ELSE "done"
             /\ status_msg_dict' = IF reads THEN out.status_msg_dict
                                   ELSE status_msg_dict
    /\ UNCHANGED submitted

\* get_job_result from its result read to its answer
GetJobResultFetch ==
    /\ pc = "get_result"
    /\ Serve(req, get_job_result_fetch)
    /\ pc' = "done"
    /\ UNCHANGED <<status_msg_dict, submitted>>

\* the answer leaves; nothing of the request is kept
Respond ==
    /\ pc = "done"
    /\ req' = NoReq
    /\ resp' = NoResp
    /\ calls' = <<>>
    /\ status_msg_dict' = NoStatus
    /\ pc' = "idle"
    /\ UNCHANGED <<Token, StorageProviderDb, backends, jobs, submitted, entry,
                   last>>

\* the status the provider may move a job to, from the status it has:
\* INITIALIZING, QUEUED, RUNNING, DONE in this order, or ERROR at any point
\* before DONE; DONE and ERROR are final
NextStatus(status) ==
    CASE status = "INITIALIZING" -> {"QUEUED", "ERROR"}
      [] status = "QUEUED" -> {"RUNNING", "ERROR"}
      [] status = "RUNNING" -> {"DONE", "ERROR"}
      [] OTHER -> {}

\* the provider's backend works on a job, between requests or between the
\* two reads of get_job_result: the job's status moves on
ProviderStep ==
    /\ pc # "done"
    /\ \E i \in 1..Len(jobs) : \E status \in NextStatus(jobs[i].status) :
          jobs' = [jobs EXCEPT ![i].status = status]
    /\ submitted' = NoSubmission
    /\ UNCHANGED <<Token, StorageProviderDb, backends, req, resp, calls, pc,
                   status_msg_dict, entry, last>>

Next ==
    \/ GetConfig
    \/ GetBackendStatus
    \/ ListBackends
    \/ PostJob
    \/ GetJobStatus
    \/ GetJobResult
    \/ GetJobResultFetch
    \/ Respond
    \/ ProviderStep

Spec == Init /\ [][Next]_vars

----------------------------------------------------------------------------
(* The backend listing and the backend config over any provider records:   *)
(* up to two records, one of them named as a device is (a backend name of  *)
(* one part resolves to it), active or not, each provider holding any of   *)
(* four devices, two of them test devices.                                 *)

ProviderNames == {P1, DEV}
Devices == {DEV, DEV2, DUMMY1, XDUMMY}

\* the configs a provider may hold: any of the devices, DEV as a simulator or
\* as hardware
DeviceConfigs ==
    { f \in UNION { [D -> [simulator : BOOLEAN]] : D \in SUBSET Devices } :
        \A d \in DOMAIN f : d # DEV => f[d].simulator }

InitBackends ==
    /\ Token = { [key |-> "k1", user |-> "alice", is_active |-> TRUE,
                  created_at |-> 1, storage_provider |-> <<>>] }
    /\ \E names \in SUBSET ProviderNames : \E active \in [names -> BOOLEAN] :
          StorageProviderDb =
              { [name |-> n, storage_type |-> "local", is_active |-> active[n]] :
                  n \in names }
    /\ backends \in [ProviderNames -> DeviceConfigs]
    /\ jobs = <<>>
    /\ req = NoReq
    /\ resp = NoResp
    /\ calls = <<>>
    /\ pc = "idle"
    /\ status_msg_dict = NoStatus
    /\ submitted = NoSubmission
    /\ entry = NoEntry
    /\ last = NoOp

NextBackends ==
    \/ ListBackends
    \/ GetConfig
    \/ Respond

SpecBackends == InitBackends /\ [][NextBackends]_vars

----------------------------------------------------------------------------
(* qlued.models: the provider records and the tokens, as the callers of    *)
(* the models make, validate, save and delete them.  objects.create saves  *)
(* the record it makes; clean works on the instance in memory and nothing  *)
(* calls it on the way to the store.                                       *)

MaxNameLen == 2
MaxEntries == 2

STORAGE_TYPE_CHOICES == {"dropbox", "mongodb", "local"}

\* the characters names are made of here: two lowercase letters, an
\* uppercase letter, a digit, a space, an underscore, a character that is
\* none of these, and a newline
Chars == {"a", "b", "A", "1", " ", "_", "!", "\n"}

\* the characters of [a-z0-9]
LowerAlnum ==
    {"a", "b", "c", "d", "e", "f", "g", "h", "i", "j", "k", "l", "m", "n", "o",
     "p", "q", "r", "s", "t", "u", "v", "w", "x", "y", "z",
     "0", "1", "2", "3", "4", "5", "6", "7", "8", "9"}

\* str.lower() on the characters above
lower(name) ==
    [i \in 1..Len(name) |-> IF name[i] = "A" THEN "a" ELSE name[i]]

\* re.match("^[a-z0-9]+$", name): one or more characters of [a-z0-9] up to
\* the end of the name, or up to a newline that ends it ($ matches there)
re_match(name) ==
    LET matched == IF Len(name) > 0 /\ name[Len(name)] = "\n"
                   THEN SubSeq(name, 1, Len(name) - 1)
                   ELSE name
    IN /\ Len(matched) > 0
       /\ \A i \in 1..Len(matched) : matched[i] \in LowerAlnum

\* the login blob validates against the login schema of the storage type;
\* a blob is known here by the set of schemas it validates against
login_valid(storage_type, login) == storage_type \in login

ValidationError == "ValidationError"
IntegrityError == "IntegrityError"

\* StorageProviderDb.clean: the exception it raises, and the instance as it
\* leaves it
clean(self) ==
    IF self.storage_type \notin STORAGE_TYPE_CHOICES
    THEN [exc |-> ValidationError, self |-> self]
    ELSE IF contains(self.name, <<" ">>) \/ contains(self.name, <<"_">>)
    THEN [exc |-> ValidationError, self |-> self]
    ELSE LET lowered == [self EXCEPT !.name = lower(self.name)]
         IN IF ~re_match(lowered.name)
            THEN [exc |-> ValidationError, self |-> lowered]
            ELSE IF ~login_valid(self.storage_type, self.login)
            THEN [exc |-> ValidationError, self |-> lowered]
            ELSE [exc |-> "", self |-> lowered]

\* the names, storage types and login blobs records are made with
RecordNames ==
    { <<"a", "1">>, <<"A", "1">>, <<"a", "_">>, <<"a", " ">>, <<"a", "\n">> }
StorageTypes == {"local"}
Logins == { {"local"}, {} }

\* the primary key the store gives a new record: one that no stored record
\* has (no instance outlives its record here, so which one does not matter)
next_id ==
    CHOOSE i \in 1..(Cardinality(StorageProviderDb) + 1) :
        /\ \A e \in StorageProviderDb : e.id # i
        /\ \A j \in 1..(i - 1) : \E e \in StorageProviderDb : e.id = j

Entry(id, storage_type, name, login) ==
    [id |-> id, name |-> name, storage_type |-> storage_type,
     is_active |-> TRUE, login |-> login]

Op(op, arg, exc) == [op |-> op, arg |-> arg, exc |-> exc]

Requests == <<req, resp, calls, pc, status_msg_dict, submitted, jobs, backends>>

\* the unique constraint on name left out
name_taken_never(name, id) == FALSE

\* unique=True on name: a record other than the one of primary key id has
\* the name
name_taken(name, id) ==
    \E e \in StorageProviderDb : e.name = name /\ e.id # id

\* unique=True on key: a token has the key
key_taken(key) == \E t \in Token : t.key = key

\* StorageProviderDb.objects.create(...): the record is saved as it is given
Create ==
    /\ pc = "idle"
    /\ \E name \in RecordNames, storage_type \in StorageTypes, login \in Logins :
          IF name_taken(name, 0)
          THEN /\ last' = Op("create", name, IntegrityError)
               /\ UNCHANGED <<StorageProviderDb, entry>>
          ELSE /\ Cardinality(StorageProviderDb) < MaxEntries
               /\ LET made == Entry(next_id, storage_type, name, login)
                  IN /\ StorageProviderDb' = StorageProviderDb \cup {made}
                     /\ entry' = made
               /\ last' = Op("create", name, "")
    /\ UNCHANGED <<Token, Requests>>

\* StorageProviderDb.objects.get(name=...): the instance of a stored record
Get ==
    /\ pc = "idle"
    /\ \E e \in StorageProviderDb :
          /\ entry' = e
          /\ last' = Op("get", e.name, "")
    /\ UNCHANGED <<Token, StorageProviderDb, Requests>>

\* entry.clean(), as full_clean() calls it: the instance in memory is
\* validated, and its name lowercased; the store is not touched
Clean ==
    /\ pc = "idle"
    /\ entry # NoEntry
    /\ LET cleaned == clean(entry)
       IN /\ entry' = cleaned.self
          /\ last' = Op("clean", entry.name, cleaned.exc)
    /\ UNCHANGED <<Token, StorageProviderDb, Requests>>

\* entry.save(): the stored record of the instance's primary key becomes
\* what the instance is
Save ==
    /\ pc = "idle"
    /\ entry # NoEntry
    /\ IF name_taken(entry.name, entry.id)
       THEN /\ last' = Op("save", entry.name, IntegrityError)
            /\ UNCHANGED StorageProviderDb
       ELSE /\ StorageProviderDb' =
                  {e \in StorageProviderDb : e.id # entry.id} \cup {entry}
            /\ last' = Op("save", entry.name, "")
    /\ UNCHANGED <<Token, entry, Requests>>

\* entry.delete()
Delete ==
    /\ pc = "idle"
    /\ entry # NoEntry
    /\ StorageProviderDb' = {e \in StorageProviderDb : e.id # entry.id}
    /\ entry' = NoEntry
    /\ last' = Op("delete", entry.name, "")
    /\ UNCHANGED <<Token, Requests>>

\* Token.objects.create(key=..., user=...)
CreateToken ==
    /\ pc = "idle"
    /\ \E key \in {"k1"}, user \in {"alice", "bob"} :
          IF key_taken(key)
          THEN /\ last' = Op("create_token", key, IntegrityError)
               /\ UNCHANGED Token
          ELSE /\ Token' = Token \cup
                     { [key |-> key, user |-> user, is_active |-> FALSE,
                        created_at |-> 1, storage_provider |-> <<>>] }
               /\ last' = Op("create_token", key, "")
    /\ UNCHANGED <<StorageProviderDb, entry, Requests>>

\* token.delete()
DeleteToken ==
    /\ pc = "idle"
    /\ \E t \in Token :
          /\ Token' = Token \ {t}
          /\ last' = Op("delete_token", t.key, "")
    /\ UNCHANGED <<StorageProviderDb, entry, Requests>>

\* every name a record of the store may come to bear holds the device DEV
InitRecords ==
    /\ Token = {}
    /\ StorageProviderDb = {}
    /\ backends = [n \in RecordNames \cup {lower(n) : n \in RecordNames} |->
                      [d \in {DEV} |-> [simulator |-> TRUE]]]
    /\ jobs = <<>>
    /\ req = NoReq
    /\ resp = NoResp
    /\ calls = <<>>
    /\ pc = "idle"
    /\ status_msg_dict = NoStatus
    /\ submitted = NoSubmission
    /\ entry = NoEntry
    /\ last = NoOp

NextRecords ==
    \/ Create
    \/ Get
    \/ Clean
    \/ Save
    \/ Delete
    \/ CreateToken
    \/ DeleteToken
    \/ ListBackends
    \/ Respond

SpecRecords == InitRecords /\ [][NextRecords]_vars

----------------------------------------------------------------------------
(* clean over any record: a record of any name of up to MaxNameLen         *)
(* characters, any storage type and any login blob has been created, and   *)
(* its instance is cleaned.                                                *)

AllNames == UNION { [1..n -> Chars] : n \in 0..MaxNameLen }

InitClean ==
    /\ Token = {}
    /\ \E name \in AllNames,
          storage_type \in STORAGE_TYPE_CHOICES \cup {"mongodb_random"},
          login \in SUBSET STORAGE_TYPE_CHOICES :
          /\ entry = Entry(1, storage_type, name, login)
          /\ StorageProviderDb = {entry}
          /\ last = Op("create", name, "")
    /\ backends = [n \in {} |-> <<>>]
    /\ jobs = <<>>
    /\ req = NoReq
    /\ resp = NoResp
    /\ calls = <<>>
    /\ pc = "idle"
    /\ status_msg_dict = NoStatus
    /\ submitted = NoSubmission

SpecClean == InitClean /\ [][Clean]_vars

----------------------------------------------------------------------------
(* The claims *)

Secured == {"post_job", "get_job_status", "get_job_result"}

\* the request has been answered
Answered == pc = "done"

\* the view of a secured endpoint ran: the token was accepted and, for
\* post_job, the body was one DictSchema accepts
ViewRan ==
    /\ Answered
    /\ req.endpoint \in Secured
    /\ authenticate(req.token)
    /\ req.endpoint = "post_job" => DictSchema(req.payload)

\* the status reads among the provider operations of the request
StatusReads == {i \in 1..Len(calls) : calls[i].op = "get_status"}

\* C1: get_job_result calls the provider's get_result only after a get_status
\* read of the same (device, username, job_id) returned DONE, and answers with
\* a result record only when the status record it fetched was DONE.
C1_ResultOnlyAfterDone ==
    /\ \A i \in 1..Len(calls) :
          calls[i].op = "get_result" =>
              \E j \in 1..(i - 1) :
                  /\ calls[j].op = "get_status"
                  /\ calls[j].provider = calls[i].provider
                  /\ calls[j].display_name = calls[i].display_name
                  /\ calls[j].username = calls[i].username
                  /\ calls[j].job_id = calls[i].job_id
                  /\ calls[j].ret = "DONE"
    /\ resp.kind = "result" =>
          /\ status_msg_dict.status = "DONE"
          /\ status_msg_dict.job_id = req.job_id
          /\ resp.body.job_id = req.job_id

\* a result record has been returned for a job the provider took to DONE
C1_Witness ==
    /\ Answered
    /\ req.endpoint = "get_job_result"
    /\ resp.kind = "result"
    /\ "get_result" \in Ops(calls)

\* C2: a token matching no Token key gives 401 with status ERROR and
\* error_message and detail "Invalid credentials!" on post_job, get_job_status
\* and get_job_result alike, whatever the backend name, job_id and payload,
\* and nothing is asked of the provider.
C2_InvalidCredential401 ==
    (/\ Answered
     /\ req.endpoint \in Secured
     /\ ~authenticate(req.token)) =>
        /\ resp.code = 401
        /\ resp.kind = "status"
        /\ resp.body.status = "ERROR"
        /\ resp.body.error_message = InvalidCredentials
        /\ resp.body.detail = InvalidCredentials
        /\ calls = <<>>

\* post_job answered 401 to an unknown token on a backend that exists, with
\* a body that is no dict
C2_Witness ==
    /\ Answered
    /\ req.endpoint = "post_job"
    /\ req.token = "bad"
    /\ req.payload = "not_a_dict"
    /\ req.backend_name = join(<<P1, DEV, simulator>>, underscore)
    /\ resp.code = 401

\* the backend name has a number of parts other than 1 and 3
Malformed(backend_name) == Len(split(backend_name, underscore)) \notin {1, 3}

\* no provider record is named by the provider part of the backend name
NoProvider(backend_name) ==
    \A e \in StorageProviderDb : e.name # split(backend_name, underscore)[1]

\* the uniform body of an unknown backend
IsUnknownBackend(body) ==
    /\ body.status = "ERROR"
    /\ body.detail = UnknownBackend
    /\ body.error_message = UnknownBackend

\* C3: with a valid credential, post_job, get_job_status and get_job_result
\* answer a backend name that cannot be resolved (malformed, or naming no
\* provider record) with 404 and the body of an unknown backend, and no
\* exception leaves the view.
C3_UnresolvedIs404 ==
    (/\ ViewRan
     /\ Malformed(req.backend_name) \/ NoProvider(req.backend_name)) =>
        /\ resp.kind = "status"
        /\ resp.code = 404
        /\ IsUnknownBackend(resp.body)

Fetched ==
    LET c == calls[CHOOSE i \in StatusReads : TRUE]
    IN get_status(c.provider, c.display_name, c.username, c.job_id)

\* the status the request's status read returned
FetchedStatus == calls[CHOOSE i \in StatusReads : TRUE].ret

\* C5: when the status record fetched from the provider has status ERROR,
\* get_job_status and get_job_result answer 406 with that status record, and
\* get_job_result fetches no result.
C5_ErrorStatusIs406 ==
    (/\ Answered
     /\ req.endpoint \in {"get_job_status", "get_job_result"}
     /\ StatusReads # {}
     /\ FetchedStatus = "ERROR") =>
        /\ resp.code = 406
        /\ resp.kind = "status"
        /\ resp.body.status = "ERROR"
        /\ resp.body = Fetched
        /\ "get_result" \notin Ops(calls)

\* get_job_status answered 406 for a job the provider took to ERROR
C5_Witness ==
    /\ Answered
    /\ req.endpoint = "get_job_status"
    /\ resp.code = 406
    /\ \E i \in 1..Len(jobs) :
          /\ jobs[i].job_id = req.job_id
          /\ jobs[i].username = username_of(req.token)
          /\ jobs[i].status = "ERROR"

\* the job the request asks for is one the provider holds, with its status
JobKnown ==
    \E i \in 1..Len(jobs) :
        /\ jobs[i].job_id = req.job_id
        /\ jobs[i].username = username_of(req.token)
        /\ jobs[i].display_name = get_short_backend_name(req.backend_name)
        /\ jobs[i].status # "NONE"

\* C6, as claimed: for a job the provider holds, get_job_result answers 200
\* with the status record, never a result record, whenever the status it
\* fetched is not DONE, and 200 with the provider's result record when it is
\* DONE.
C6_NotDoneIs200 ==
    (/\ Answered
     /\ req.endpoint = "get_job_result"
     /\ StatusReads # {}
     /\ JobKnown) =>
        /\ FetchedStatus # "DONE" =>
              /\ resp.code = 200
              /\ resp.kind = "status"
        /\ FetchedStatus = "DONE" =>
              /\ resp.code = 200
              /\ resp.kind = "result"

\* C6, amended: get_job_result answers 200 with the status record it fetched,
\* never a result record and without a result read, whenever the status it
\* fetched is neither DONE nor ERROR, and 200 with the provider's result
\* record when it is DONE.
C6_PendingIs200 ==
    (/\ Answered
     /\ req.endpoint = "get_job_result"
     /\ StatusReads # {}) =>
        /\ FetchedStatus \notin {"DONE", "ERROR"} =>
              /\ resp.code = 200
              /\ resp.kind = "status"
              /\ resp.body = status_msg_dict
              /\ resp.body.status = FetchedStatus
              /\ "get_result" \notin Ops(calls)
        /\ FetchedStatus = "DONE" =>
              /\ resp.code = 200
              /\ resp.kind = "result"
              /\ LET c == calls[CHOOSE i \in StatusReads : TRUE]
                 IN resp.body = get_result(c.provider, c.display_name,
                                           c.username, c.job_id)

\* get_job_result answered 200 with the status record of a running job
C6_Witness ==
    /\ Answered
    /\ req.endpoint = "get_job_result"
    /\ resp.code = 200
    /\ resp.kind = "status"
    /\ resp.body.status = "RUNNING"

\* the body of a resolution failure of get_config and get_backend_status
IsResolutionFailure(body) ==
    /\ body.status = "ERROR"
    /\ Mentions(body.detail, "Unknown back-end")
    /\ body.error_message = UnknownBackend

\* C7: get_config answers every backend name whose number of parts is not 1
\* or 3, and every backend name whose provider part names no provider record
\* (a bare device name included), with 404, error_message "Unknown back-end!"
\* and a detail containing "Unknown back-end".
C7_GetConfigUnresolvedIs404 ==
    (/\ Answered
     /\ req.endpoint = "get_config"
     /\ Malformed(req.backend_name) \/ NoProvider(req.backend_name)) =>
        /\ resp.code = 404
        /\ resp.kind = "status"
        /\ IsResolutionFailure(resp.body)

\* get_config answered 404 to a bare device name that names no provider
C7_Witness ==
    /\ Answered
    /\ req.endpoint = "get_config"
    /\ req.backend_name = DEV
    /\ NoProvider(req.backend_name)
    /\ resp.code = 404

\* C8: get_backend_status answers every malformed backend name, and every
\* backend name whose provider part names no provider record, with 404,
\* error_message "Unknown back-end!" and a detail containing "Unknown
\* back-end".
C8_GetBackendStatusUnresolvedIs404 ==
    (/\ Answered
     /\ req.endpoint = "get_backend_status"
     /\ Malformed(req.backend_name) \/ NoProvider(req.backend_name)) =>
        /\ resp.code = 404
        /\ resp.kind = "status"
        /\ IsResolutionFailure(resp.body)

\* C9: get_config and get_backend_status answer a well-formed backend name
\* whose provider exists and whose device is not in the provider's device
\* list with 404 and the body of an unknown backend; the failure does not
\* leave the view unhandled.
C9_UnknownDeviceIs404 ==
    (/\ Answered
     /\ req.endpoint \in {"get_config", "get_backend_status"}
     /\ ~Malformed(req.backend_name)
     /\ ~NoProvider(req.backend_name)
     /\ get_short_backend_name(req.backend_name)
            \notin get_backends(get_storage_provider(req.backend_name).name)) =>
        /\ resp.kind = "status"
        /\ resp.code = 404
        /\ IsResolutionFailure(resp.body)

\* C10: post_job, with a valid credential and a known backend, answers a
\* payload that does not validate as job data with 406, status ERROR and the
\* detail "The encoding of your json seems not work out!", and uploads no job.
C10_BadPayloadIs406 ==
    (/\ Answered
     /\ req.endpoint = "post_job"
     /\ authenticate(req.token)
     /\ ~NoProvider(req.backend_name)
     /\ get_short_backend_name(req.backend_name)
            \in get_backends(get_storage_provider(req.backend_name).name)
     /\ ~DictSchema(req.payload)) =>
        /\ resp.code = 406
        /\ resp.kind = "status"
        /\ resp.body.status = "ERROR"
        /\ resp.body.detail = BadJsonEncoding
        /\ "upload_job" \notin Ops(calls)

\* C11: in post_job, a failure the provider raises in the upload_job step or
\* in the upload_status step is answered with 406 and the body job_id "None",
\* status ERROR, detail and error_message "Error saving json data to
\* database!".
C11_ProviderFailureIs406 ==
    (/\ Answered
     /\ req.endpoint = "post_job"
     /\ req.fault \in {"upload_job", "upload_status"}) =>
        /\ resp.code = 406
        /\ resp.kind = "status"
        /\ resp.body = StatusMsgDict("None", "ERROR", ErrorSavingJson,
                                     ErrorSavingJson)

\* post_job answered 406 after the provider raised in upload_status, the
\* job record being written
C11_Witness ==
    /\ Answered
    /\ req.endpoint = "post_job"
    /\ req.fault = "upload_status"
    /\ Ops(calls) = {"get_backends", "upload_job", "upload_status"}
    /\ resp.code = 406

\* the provider writes among the operations of the request, in their order
Writes == SelectSeq(calls, LAMBDA c : c.op \in {"upload_job", "upload_status"})

\* C12: a post_job that succeeds makes exactly two provider writes, upload_job
\* and then upload_status, both for the device short name, the username of
\* the credential and the job_id upload_job returned, and answers with the
\* status record upload_status returned, which carries that job_id and the
\* initial status.
C12_TwoWritesInOrder ==
    (/\ Answered
     /\ req.endpoint = "post_job"
     /\ resp.code = 200) =>
        /\ Len(Writes) = 2
        /\ Writes[1].op = "upload_job"
        /\ Writes[2].op = "upload_status"
        /\ \A i \in 1..2 :
              /\ Writes[i].display_name = get_short_backend_name(req.backend_name)
              /\ Writes[i].username = username_of(req.token)
              /\ Writes[i].job_id = Writes[1].job_id
        /\ Writes[1].job_id \in JobIds
        /\ resp.kind = "status"
        /\ resp.body.job_id = Writes[1].job_id
        /\ resp.body.status = "INITIALIZING"
        /\ \E i \in 1..Len(jobs) :
              /\ jobs[i].job_id = resp.body.job_id
              /\ jobs[i].display_name = Writes[1].display_name
              /\ jobs[i].username = Writes[1].username
              /\ jobs[i].status = "INITIALIZING"

\* post_job has succeeded for the second user, a job being stored already
C12_Witness ==
    /\ Answered
    /\ req.endpoint = "post_job"
    /\ req.token = "k2"
    /\ resp.code = 200
    /\ Len(jobs) = 2
    /\ Len(Writes) = 2

\* the request is a get_job_status for the job the last post_job returned,
\* with its credential and backend name, and the provider has not worked on
\* a job since
StatusOfSubmitted ==
    /\ Answered
    /\ req.endpoint = "get_job_status"
    /\ submitted # NoSubmission
    /\ req.backend_name = submitted.backend_name
    /\ req.token = submitted.token
    /\ req.job_id = submitted.job_id

\* C13: a get_job_status for the job_id a successful post_job returned, with
\* the same credential and backend name and before the provider has worked
\* on a job, answers with a status record whose job_id is that job_id and
\* whose status is not DONE.
C13_StatusRightAfterSubmit ==
    StatusOfSubmitted =>
        /\ resp.kind = "status"
        /\ resp.body.job_id = submitted.job_id
        /\ resp.body.status # "DONE"

\* get_job_status has answered for the second job submitted, right after
\* its post_job
C13_Witness ==
    /\ StatusOfSubmitted
    /\ submitted.job_id = "2"
    /\ resp.code = 200
    /\ resp.body.status = "INITIALIZING"

\* the step is a post_job that succeeds
PostJobSucceeds ==
    /\ pc = "idle"
    /\ pc' = "done"
    /\ req'.endpoint = "post_job"
    /\ resp'.code = 200

\* C14: post_job is not idempotent.  Every post_job that succeeds calls
\* upload_job and leaves one more job record with the provider, under a
\* job_id that no record held before has, whatever was submitted before: two
\* submissions with the same backend name, credential and payload return
\* different job_ids and leave two records.
C14_EachSubmitMintsJob ==
    [][PostJobSucceeds =>
          /\ "upload_job" \in Ops(calls')
          /\ Len(jobs') = Len(jobs) + 1
          /\ SubSeq(jobs', 1, Len(jobs)) = jobs
          /\ jobs'[Len(jobs')].job_id = resp'.body.job_id
          /\ \A i \in 1..Len(jobs) : jobs[i].job_id # resp'.body.job_id]_vars

\* post_job has succeeded twice for the same user, provider and device: the
\* provider holds two records, under two job_ids
C14_Witness ==
    /\ Answered
    /\ req.endpoint = "post_job"
    /\ resp.code = 200
    /\ Len(jobs) = 2
    /\ jobs[1].provider = jobs[2].provider
    /\ jobs[1].display_name = jobs[2].display_name
    /\ jobs[1].username = jobs[2].username
    /\ jobs[1].status = "INITIALIZING"
    /\ jobs[1].job_id # jobs[2].job_id
    /\ resp.body.job_id = jobs[2].job_id

\* the get_backend_dict operations among those of the request
ConfigReads == SelectSeq(calls, LAMBDA c : c.op = "get_backend_dict")

\* the provider has an active record
IsActive(storage_provider) ==
    \E e \in StorageProviderDb : e.name = storage_provider /\ e.is_active

\* C15: whatever the provider records and their devices, the list that
\* list_backends returns has no device whose name contains "dummy" and no
\* device of a provider whose record is not active, and has the config of
\* every other device of every active provider.
C15_ListedBackends ==
    (/\ Answered
     /\ req.endpoint = "list_backends") =>
        /\ resp.code = 200
        /\ Len(resp.body) = Len(ConfigReads)
        /\ \A i \in 1..Len(resp.body) :
              /\ ~contains(resp.body[i].display_name, dummy)
              /\ ~contains(ConfigReads[i].display_name, dummy)
              /\ IsActive(ConfigReads[i].provider)
              /\ resp.body[i] = get_backend_dict(ConfigReads[i].provider,
                                                 ConfigReads[i].display_name).config
        /\ \A e \in StorageProviderDb : \A d \in get_backends(e.name) :
              (e.is_active /\ ~contains(d, dummy)) =>
                  Cardinality({ i \in 1..Len(ConfigReads) :
                                  /\ ConfigReads[i].provider = e.name
                                  /\ ConfigReads[i].display_name = d }) = 1

\* list_backends has answered with the devices of the one active provider,
\* an inactive provider holding devices too and test devices being held
C15_Witness ==
    /\ Answered
    /\ req.endpoint = "list_backends"
    /\ StorageProviderDb =
           { [name |-> P1, storage_type |-> "local", is_active |-> TRUE],
             [name |-> DEV, storage_type |-> "local", is_active |-> FALSE] }
    /\ DOMAIN backends[P1] = {DEV, DEV2, DUMMY1, XDUMMY}
    /\ DOMAIN backends[DEV] = {DEV, DEV2}
    /\ Len(resp.body) = 2

\* the url of a device of a provider: BASE_URL, "/api/v2/", the provider, the
\* device and simulator or hardware by the device's own flag, and "/"
UrlOf(storage_provider, device) ==
    LET flag == backends[storage_provider][device].simulator
    IN <<Val(BASE_URL), Lit("/api/v2/"),
         Val(storage_provider \o <<"_">> \o device \o <<"_">>
                 \o (IF flag THEN simulator ELSE hardware)),
         Lit("/")>>

\* C16: a get_config that succeeds returns the device's config with the url
\* BASE_URL + "/api/v2/" + provider_device_variant + "/", the variant being
\* simulator when the device's simulator flag is true and hardware when it
\* is not, whatever third part the backend name has and also when it has one
\* part only; the same call again gives the same answer.
C16_ConfigUrl ==
    (/\ Answered
     /\ req.endpoint = "get_config"
     /\ resp.code = 200) =>
        LET parts == split(req.backend_name, underscore)
            device == IF Len(parts) = 1 THEN parts[1] ELSE parts[2]
        IN /\ Len(parts) \in {1, 3}
           /\ resp.kind = "config"
           /\ resp.body.display_name = device
           /\ resp.body.url = UrlOf(parts[1], device)
           /\ \A other \in BackendNames :
                 LET others == split(other, underscore)
                 IN (/\ Len(parts) = 3
                     /\ Len(others) = 3
                     /\ others[1] = parts[1]
                     /\ others[2] = parts[2]) =>
                        get_config(other).resp = resp
           /\ get_config(req.backend_name) = Done(resp, calls, jobs)

\* get_config has answered for a device that is hardware, asked for as a
\* simulator
C16_Witness ==
    /\ Answered
    /\ req.endpoint = "get_config"
    /\ req.backend_name = join(<<P1, DEV, simulator>>, underscore)
    /\ resp.code = 200
    /\ ~backends[P1][DEV].simulator
    /\ resp.body.url = <<Val(BASE_URL), Lit("/api/v2/"),
                         Val(join(<<P1, DEV, hardware>>, underscore)), Lit("/")>>

\* the record stores that differ from tokens in nothing but the is_active
\* flag, the creation time and the linked storage provider of one record
TokenVariants(tokens) ==
    LET Fields == [is_active : BOOLEAN, created_at : {1, 2},
                   storage_provider : {<<>>} \cup {e.name : e \in StorageProviderDb}]
    IN { (tokens \ {t}) \cup
             { [key |-> t.key, user |-> t.user, is_active |-> f.is_active,
                created_at |-> f.created_at,
                storage_provider |-> f.storage_provider] } :
         t \in tokens, f \in Fields }

\* C17: a request is authenticated exactly when a Token record has the
\* presented token as its key: the outcome is the same in every record store
\* that differs only in the is_active flags, the creation times and the
\* linked storage providers of the records, and a credential that is
\* accepted submits to a device of any provider.
C17_AuthByKeyOnly ==
    (/\ Answered
     /\ req.endpoint \in Secured) =>
        /\ resp.code = 401 <=> ~(\E t \in Token : t.key = req.token)
        /\ \A tokens \in TokenVariants(Token) :
              authenticate_with(tokens, req.token) <=> resp.code # 401
        /\ (/\ \E t \in Token : t.key = req.token
            /\ req.endpoint = "post_job"
            /\ DictSchema(req.payload)
            /\ req.fault = "none"
            /\ ~Malformed(req.backend_name)
            /\ ~NoProvider(req.backend_name)
            /\ get_short_backend_name(req.backend_name)
                   \in get_backends(get_storage_provider(req.backend_name).name)) =>
               resp.code = 200

\* a token that is not active and is linked to another provider has been
\* accepted, and its job submitted to a device of the first provider
C17_Witness ==
    /\ Answered
    /\ req.endpoint = "post_job"
    /\ \E t \in Token :
          /\ t.key = req.token
          /\ ~t.is_active
          /\ t.storage_provider = P2
    /\ split(req.backend_name, underscore)[1] = P1
    /\ resp.code = 200

\* the name has lowercase letters and digits only, and one at least
ValidName(name) ==
    /\ Len(name) > 0
    /\ \A i \in 1..Len(name) : name[i] \in LowerAlnum

\* the core resolves a backend name to the record: get_storage_provider
\* finds it for a backend name of three parts that begins with its name
Resolvable(e) ==
    LET found == get_storage_provider(join(<<e.name, DEV, simulator>>, underscore))
    IN found.exc = "" /\ found.name = e.name

\* C18: after any creations, cleans and saves of provider records, every
\* record that the core resolves by its name, and every record whose devices
\* list_backends has just enumerated, has a name of lowercase letters and
\* digits only.
C18_UsableNamesAreValid ==
    /\ \A e \in StorageProviderDb : Resolvable(e) => ValidName(e.name)
    /\ (Answered /\ req.endpoint = "list_backends") =>
           \A i \in 1..Len(calls) : ValidName(calls[i].provider)

\* what the validation of a record is claimed to fail on, the name being
\* the one the record had before
FailsValidation(name, storage_type, login) ==
    \/ storage_type \notin {"dropbox", "mongodb", "local"}
    \/ \E i \in 1..Len(name) : name[i] \in {" ", "_"}
    \/ \E i \in 1..Len(name) : lower(name)[i] \notin LowerAlnum
    \/ storage_type \notin login

\* C19: the validation of a provider record (of a name of one character at
\* least) raises a validation error whenever the storage type is not one of
\* dropbox, mongodb and local, or the name has a space or an underscore or,
\* once lowercased, a character outside [a-z0-9], or the login blob does not
\* validate against the login schema of the storage type; it raises nothing
\* otherwise, and leaves the name lowercased.
C19_CleanFailsExactlyOnBadRecords ==
    (last.op = "clean" /\ Len(last.arg) > 0) =>
        /\ last.exc = ValidationError
               <=> FailsValidation(last.arg, entry.storage_type, entry.login)
        /\ last.exc = "" => entry.name = lower(last.arg)

\* at most one token per key, at most one provider record per name
UniqueKeys ==
    /\ \A t1, t2 \in Token : t1.key = t2.key => t1 = t2
    /\ \A e1, e2 \in StorageProviderDb : e1.name = e2.name => e1 = e2

\* C20: the creation of a Token whose key an existing Token has, and the
\* creation of a provider record whose name an existing provider record has,
\* raise an integrity error and leave the store as it was; whatever is
\* created, saved and deleted, no two Tokens have the same key and no two
\* provider records the same name.
C20_UniqueAtCreation ==
    [][/\ (/\ last' # last
            /\ last'.op = "create_token"
            /\ \E t \in Token : t.key = last'.arg) =>
               /\ last'.exc = IntegrityError
               /\ Token' = Token
       /\ (/\ last' # last
            /\ last'.op = "create"
            /\ \E e \in StorageProviderDb : e.name = last'.arg) =>
               /\ last'.exc = IntegrityError
               /\ StorageProviderDb' = StorageProviderDb
       /\ UniqueKeys']_vars

\* the creation of a second provider record of a name has been refused, a
\* token and two provider records being stored
C20_Witness ==
    /\ last.op = "create"
    /\ last.exc = IntegrityError
    /\ \E e \in StorageProviderDb : e.name = last.arg /\ e.id # entry.id
    /\ Cardinality(StorageProviderDb) = 2
    /\ Token # {}

\* the records the provider holds for the job the request asks for
Asked ==
    Stored(get_storage_provider(req.backend_name).name,
           get_short_backend_name(req.backend_name),
           username_of(req.token), req.job_id)

\* the provider holds the job the request asks for, and its status is DONE
AskedIsDone ==
    /\ Asked # {}
    /\ \A i \in Asked : jobs[i].status = "DONE"

\* C21: whatever the provider does to the status of the jobs between the
\* two reads of get_job_result (each job going INITIALIZING, QUEUED, RUNNING,
\* DONE or to ERROR, DONE and ERROR being final), the job is DONE when
\* get_job_result is about to read its result and when it has read it: a
\* result is never returned for a job that is not DONE.
C21_ResultReadFindsDone ==
    /\ pc = "get_result" => AskedIsDone
    /\ (/\ Answered
        /\ req.endpoint = "get_job_result"
        /\ "get_result" \in Ops(calls) \/ resp.kind = "result") => AskedIsDone

\* get_job_result is between its two reads, and the provider holds another
\* job that it may move on meanwhile
C21_Witness ==
    /\ pc = "get_result"
    /\ req.endpoint = "get_job_result"
    /\ \E i \in 1..Len(jobs) : i \notin Asked /\ NextStatus(jobs[i].status) # {}

\* the step is a post_job in which upload_job succeeds and upload_status
\* raises
UploadStatusFails ==
    /\ pc = "idle"
    /\ pc' = "done"
    /\ req'.endpoint = "post_job"
    /\ req'.fault = "upload_status"

\* C22: post_job takes nothing back.  When upload_job has succeeded and
\* upload_status raises, the answer is 406 with job_id "None", and the job
\* record upload_job made stays with the provider, for the device and the
\* username of the request and without a status record: the provider's job
\* store is not what it was before the request.
C22_NoRollback ==
    [][UploadStatusFails =>
          /\ resp'.code = 406
          /\ resp'.body.job_id = "None"
          /\ Ops(calls') \cap JobOps = {"upload_job", "upload_status"}
          /\ Len(jobs') = Len(jobs) + 1
          /\ SubSeq(jobs', 1, Len(jobs)) = jobs
          /\ LET left == jobs'[Len(jobs')]
             IN /\ left.status = "NONE"
                /\ left.display_name = get_short_backend_name(req'.backend_name)
                /\ left.username = username_of(req'.token)
                /\ \A i \in 1..Len(jobs) : jobs[i].job_id # left.job_id]_vars

\* post_job has answered 406 after upload_status raised, and the job it
\* uploaded is with the provider, without a status record
C22_Witness ==
    /\ Answered
    /\ req.endpoint = "post_job"
    /\ req.fault = "upload_status"
    /\ resp.code = 406
    /\ resp.body.job_id = "None"
    /\ jobs # <<>>
    /\ jobs[Len(jobs)].status = "NONE"
    /\ jobs[Len(jobs)].username = username_of(req.token)

====
